---- MODULE Spec2Model ----
(***************************************************************************)
(* A model of pest's result layer: Span and its line iterator (span.rs),   *)
(* and Pair, the view of one matched rule range over the shared token      *)
(* queue (iterators/pair.rs).                                              *)
(*                                                                         *)
(* Shared resources (Arc<str>, Rc<Vec<QueueableToken>>) live in two heaps, *)
(* inputs and queues, indexed by handles; a view holds handles, so pointer *)
(* identity (Arc::ptr_eq, Rc::ptr_eq) is equality of handles while content *)
(* is the heap cell.  Byte offsets and token indices are 0-based as in the *)
(* source; TLA+ sequences are 1-based, so the byte at offset i of a text t *)
(* is t[i + 1].                                                            *)
(***************************************************************************)
EXTENDS Integers, Sequences, FiniteSets, TLC

VARIABLES inputs, queues, span, lines, yielded, pairs, origin, pair, ret

vars == <<inputs, queues, span, lines, yielded, pairs, origin, pair, ret>>

\* Longest text, in characters, of the Span specification.
MaxChars == 3

\* Most rule matches recorded in one token queue.
MaxMatches == 3

(***************************************************************************)
(* Texts.  A Rust str is valid UTF-8: a text is the concatenation of the   *)
(* encodings of its characters.                                            *)
(***************************************************************************)
Chars == {"a", "LF", "e_acute"}

\* UTF-8 encoding of one character: 'a' = 61, '\n' = 0A, 'é' = C3 A9.
Utf8(c) ==
    CASE c = "a" -> <<97>>
      [] c = "LF" -> <<10>>
      [] c = "e_acute" -> <<195, 169>>

RECURSIVE Encode(_)
Encode(cs) == IF cs = <<>> THEN <<>> ELSE Utf8(Head(cs)) \o Encode(Tail(cs))

CharSeqs(n) == UNION {[1..k -> Chars] : k \in 0..n}

\* str::is_char_boundary: 0 and len are boundaries, an offset past len is
\* not, and otherwise the byte must not be a continuation byte (10xxxxxx).
is_char_boundary(t, i) ==
    \/ i = 0
    \/ i = Len(t)
    \/ /\ i < Len(t)
       /\ ~(t[i + 1] >= 128 /\ t[i + 1] < 192)

\* str::get(start..end).is_some()
get_is_some(t, start, end) ==
    /\ start <= end
    /\ is_char_boundary(t, start)
    /\ is_char_boundary(t, end)

\* &input[start..end]
Slice(t, start, end) == SubSeq(t, start + 1, end)

(***************************************************************************)
(* Span (span.rs).                                                         *)
(***************************************************************************)
NoSpan == [some |-> FALSE]

\* Span { input, start, end }
MkSpan(h, start, end) == [some |-> TRUE, input |-> h, start |-> start, end |-> end]

\* A Span::new that checks the range but not the character boundaries.
SpanNewWrong(h, start, end) ==
    IF start <= end /\ end <= Len(inputs[h])
    THEN MkSpan(h, start, end)
    ELSE NoSpan

\* Span::new
Span_new(h, start, end) ==
    IF get_is_some(inputs[h], start, end)
    THEN MkSpan(h, start, end)
    ELSE NoSpan

\* Span::as_str
Span_as_str(s) == Slice(inputs[s.input], s.start, s.end)

(***************************************************************************)
(* Position, the cursor collaborator (position.rs).                        *)
(***************************************************************************)
\* Position::new: a cursor exists only at a character boundary.
Position_new_ok(t, pos) == is_char_boundary(t, pos)

\* Position::at_end
at_end(t, pos) == pos = Len(t)

\* Position::find_line_start: one past the last newline before pos, or 0.
find_line_start(t, pos) ==
    LET nl == {i \in 0..(pos - 1) : i < Len(t) /\ t[i + 1] = 10}
    IN  IF nl = {} THEN 0
        ELSE (CHOOSE i \in nl : \A j \in nl : j <= i) + 1

\* Position::find_line_end: one past the first newline at or after pos, or
\* the end of the text.
find_line_end(t, pos) ==
    LET nl == {i \in pos..(Len(t) - 1) : t[i + 1] = 10}
    IN  IF nl = {} THEN Len(t)
        ELSE (CHOOSE i \in nl : \A j \in nl : i <= j) + 1

(***************************************************************************)
(* Lines (span.rs).                                                        *)
(***************************************************************************)
NoLines == [some |-> FALSE]

\* Span::lines
Span_lines(s) == [some |-> TRUE, pos |-> s.start, calls |-> "none"]

\* A Lines::next that leaves the cursor at the start of the yielded line.
LinesNextWrong(s, pos) ==
    LET t == inputs[s.input]
    IN  IF pos > s.end THEN [some |-> FALSE, pos |-> pos]
        ELSE IF ~Position_new_ok(t, pos) THEN [some |-> FALSE, pos |-> pos]
        ELSE IF at_end(t, pos) THEN [some |-> FALSE, pos |-> pos]
        ELSE [some |-> TRUE,
              start |-> find_line_start(t, pos),
              end |-> find_line_end(t, pos),
              pos |-> find_line_start(t, pos)]

\* Lines::next: the offsets [line_start, line_end) of the yielded slice and
\* the cursor afterwards; some = FALSE when the call returns None.
Lines_next(s, pos) ==
    LET t == inputs[s.input]
    IN  IF pos > s.end THEN [some |-> FALSE, pos |-> pos]
        ELSE IF ~Position_new_ok(t, pos) THEN [some |-> FALSE, pos |-> pos]
        ELSE IF at_end(t, pos) THEN [some |-> FALSE, pos |-> pos]
        ELSE [some |-> TRUE,
              start |-> find_line_start(t, pos),
              end |-> find_line_end(t, pos),
              pos |-> find_line_end(t, pos)]

(***************************************************************************)
(* The token queue (iterators/queueable_token.rs): Start carries the index *)
(* of its matching End and a byte offset, End carries the rule and a byte  *)
(* offset.                                                                 *)
(***************************************************************************)
StartToken(end_token_index, input_pos) ==
    [tag |-> "Start", end_token_index |-> end_token_index, input_pos |-> input_pos]

EndToken(rule, input_pos) ==
    [tag |-> "End", rule |-> rule, input_pos |-> input_pos]

\* Outcomes of a call that does not return: unreachable!() and a failed
\* index or slice.  They are negative, so no index or offset equals them.
Unreachable == 0 - 1
OutOfBounds == 0 - 2

\* self.queue[index]
Entry(q, index) ==
    IF index >= 0 /\ index < Len(q) THEN q[index + 1] ELSE [tag |-> "None"]

(***************************************************************************)
(* Pair (iterators/pair.rs).                                               *)
(***************************************************************************)
\* pair::new
pair_new(queue, input, start) ==
    [some |-> TRUE, queue |-> queue, input |-> input, start |-> start]

\* A Pair::pair that closes a Start at the nearest End, nested or not.
PairWrong(p) ==
    LET q == queues[p.queue]
        ends == {j \in (p.start + 1)..(Len(q) - 1) : q[j + 1].tag = "End"}
    IN  IF Entry(q, p.start).tag = "Start" /\ ends # {}
        THEN CHOOSE j \in ends : \A k \in ends : j <= k
        ELSE Unreachable

\* Pair::pair
Pair_pair(p) ==
    LET e == Entry(queues[p.queue], p.start)
    IN  CASE e.tag = "Start" -> e.end_token_index
          [] e.tag = "End" -> Unreachable
          [] OTHER -> OutOfBounds

\* Pair::pos
Pair_pos(p, index) ==
    LET e == Entry(queues[p.queue], index)
    IN  IF e.tag \in {"Start", "End"} THEN e.input_pos ELSE OutOfBounds

\* A Pair::as_rule that reads the entry at start, not at pair().
AsRuleWrong(p) ==
    LET e == Entry(queues[p.queue], p.start)
    IN  CASE e.tag = "End" -> e.rule
          [] e.tag = "Start" -> "!unreachable"
          [] OTHER -> "!out_of_bounds"

\* Pair::as_rule
Pair_as_rule(p) ==
    LET e == Entry(queues[p.queue], Pair_pair(p))
    IN  CASE e.tag = "End" -> e.rule
          [] e.tag = "Start" -> "!unreachable"
          [] OTHER -> "!out_of_bounds"

\* &self.input[start..end], which panics unless the range is a valid slice.
Index(t, start, end) ==
    IF start >= 0 /\ get_is_some(t, start, end)
    THEN Slice(t, start, end)
    ELSE <<OutOfBounds>>

\* Pair::as_str
Pair_as_str(p) ==
    LET start == Pair_pos(p, p.start)
        end == Pair_pos(p, Pair_pair(p))
    IN  Index(inputs[p.input], start, end)

\* Span::new_unchecked; the debug assertion is checked by C10.
Span_new_unchecked(h, start, end) == MkSpan(h, start, end)

\* A Pair::as_span that takes both offsets from the Start entry.
AsSpanWrong(p) ==
    Span_new_unchecked(p.input, Pair_pos(p, p.start), Pair_pos(p, p.start))

\* Pair::as_span
Pair_as_span(p) ==
    LET start == Pair_pos(p, p.start)
        end == Pair_pos(p, Pair_pair(p))
    IN  Span_new_unchecked(p.input, start, end)

\* pairs::new (iterators/pairs.rs)
pairs_new(queue, input, start, end) ==
    [some |-> TRUE, queue |-> queue, input |-> input, start |-> start, end |-> end]

\* tokens::new (iterators/tokens.rs)
tokens_new(queue, input, start, end) ==
    [queue |-> queue, input |-> input, start |-> start, end |-> end]

\* A Pair::into_inner whose range takes in the pair's own End.
IntoInnerWrong(p) == pairs_new(p.queue, p.input, p.start + 1, Pair_pair(p) + 1)

\* Pair::into_inner
Pair_into_inner(p) ==
    LET end == Pair_pair(p)
    IN  pairs_new(p.queue, p.input, p.start + 1, end)

\* Pair::tokens
Pair_tokens(p) ==
    LET end == Pair_pair(p)
    IN  tokens_new(p.queue, p.input, p.start, end + 1)

\* A Pairs::single that starts past the pair's Start, as into_inner does.
SingleWrong(p) == pairs_new(p.queue, p.input, p.start + 1, Pair_pair(p))

\* Pairs::single
Pairs_single(p) ==
    LET end == Pair_pair(p)
    IN  pairs_new(p.queue, p.input, p.start, end)

\* An equality by content: equal queues, equal texts, equal start.
EqWrong(p, q) ==
    /\ queues[p.queue] = queues[q.queue]
    /\ inputs[p.input] = inputs[q.input]
    /\ p.start = q.start

\* impl PartialEq for Pair: Rc::ptr_eq, Arc::ptr_eq and start.
Pair_eq(p, q) ==
    /\ p.queue = q.queue
    /\ p.input = q.input
    /\ p.start = q.start

\* impl Hash for Pair: the values fed to the hasher, in order.
Pair_hash(p) == <<p.queue, p.input, p.start>>

(***************************************************************************)
(* Pairs and Tokens (iterators/pairs.rs, iterators/tokens.rs).             *)
(***************************************************************************)
\* Pairs::peek
Pairs_peek(ps) ==
    IF ps.start < ps.end
    THEN pair_new(ps.queue, ps.input, ps.start)
    ELSE [some |-> FALSE]

\* Pairs::next: the pair yielded and the iterator afterwards.
Pairs_next(ps) ==
    LET p == Pairs_peek(ps)
    IN  IF p.some
        THEN [item |-> p, iter |-> [ps EXCEPT !.start = Pair_pair(p) + 1]]
        ELSE [item |-> p, iter |-> ps]

\* Pairs::tokens
Pairs_tokens(ps) == tokens_new(ps.queue, ps.input, ps.start, ps.end)

\* Tokens, collected: the queue entries of [start, end) in order.
Tokens_collect(ts) ==
    [k \in 1..(IF ts.end > ts.start THEN ts.end - ts.start ELSE 0) |->
        Entry(queues[ts.queue], ts.start + k - 1)]

\* pairs.collect::<Vec<_>>(): next() until it returns None.  A next() that
\* panics (its entry is no Start) ends the collection at that item.
RECURSIVE Pairs_collect(_)
Pairs_collect(ps) ==
    LET r == Pairs_next(ps)
    IN  IF ~r.item.some THEN <<>>
        ELSE IF Pair_pair(r.item) < 0 THEN <<r.item>>
        ELSE <<r.item>> \o Pairs_collect(r.iter)

(***************************************************************************)
(* Display and Serialize for Pair (iterators/pair.rs).                     *)
(***************************************************************************)
\* [String]::join
RECURSIVE Join(_, _)
Join(strs, sep) ==
    IF strs = <<>> THEN ""
    ELSE IF Len(strs) = 1 THEN strs[1]
    ELSE strs[1] \o sep \o Join(Tail(strs), sep)

RECURSIVE Pair_fmt(_)
\* A Display that tests peek() the wrong way round.
FmtWrong(p) ==
    LET rule == Pair_as_rule(p)
        start == Pair_pos(p, p.start)
        end == Pair_pos(p, Pair_pair(p))
        ps == Pair_into_inner(p)
        inner == Pairs_collect(ps)
    IN  IF Pairs_peek(ps).some
        THEN rule \o "(" \o ToString(start) \o ", " \o ToString(end) \o ")"
        ELSE rule \o "(" \o ToString(start) \o ", " \o ToString(end) \o ", ["
               \o Join([i \in 1..Len(inner) |-> Pair_fmt(inner[i])], ", ") \o "])"

\* impl Display for Pair; a rule's Debug form is its name.
Pair_fmt(p) ==
    LET rule == Pair_as_rule(p)
        start == Pair_pos(p, p.start)
        end == Pair_pos(p, Pair_pair(p))
        ps == Pair_into_inner(p)
        inner == Pairs_collect(ps)
    IN  IF ~Pairs_peek(ps).some
        THEN rule \o "(" \o ToString(start) \o ", " \o ToString(end) \o ")"
        ELSE rule \o "(" \o ToString(start) \o ", " \o ToString(end) \o ", ["
               \o Join([i \in 1..Len(inner) |-> Pair_fmt(inner[i])], ", ") \o "])"

\* No call made while formatting or serializing p panics.
RECURSIVE Sound(_)
Sound(p) ==
    /\ Pair_pair(p) >= 0
    /\ Pair_as_rule(p) \notin {"!unreachable", "!out_of_bounds"}
    /\ Pair_as_str(p) # <<OutOfBounds>>
    /\ LET inner == Pairs_collect(Pair_into_inner(p))
       IN  \A i \in 1..Len(inner) : Sound(inner[i])

\* What a serializer receives: a string, a tuple of numbers, a sequence, or
\* a struct, whose fields are kept in the order they were emitted.
SerStr(x) == [type |-> "str", text |-> x]
SerTuple(x) == [type |-> "tuple", items |-> x]
SerSeq(x) == [type |-> "seq", items |-> x]
SerStruct(fields) == [type |-> "struct", fields |-> fields]
SerField(name, value) == [name |-> name, value |-> value]

\* impl Serialize for Pairs (iterators/pairs.rs): the offsets of the whole
\* sibling range and the serialized pairs.
RECURSIVE Pair_serialize(_)
Pairs_serialize(ps) ==
    LET first == pair_new(ps.queue, ps.input, ps.start)
        start == Pair_pos(first, ps.start)
        end == Pair_pos(first, ps.end - 1)
        items == Pairs_collect(ps)
    IN  SerStruct(<<SerField("pos", SerTuple(<<start, end>>)),
                    SerField("pairs",
                        SerSeq([i \in 1..Len(items) |-> Pair_serialize(items[i])]))>>)

\* A Serialize that emits the substring as inner whatever p holds.
SerializeWrong(p) ==
    LET start == Pair_pos(p, p.start)
        end == Pair_pos(p, Pair_pair(p))
        rule == Pair_as_rule(p)
        inner == Pair_into_inner(p)
    IN  SerStruct(<<SerField("pos", SerTuple(<<start, end>>)),
                    SerField("rule", SerStr(rule)),
                    SerField("inner", SerStr(Pair_as_str(p)))>>)

\* impl Serialize for Pair
Pair_serialize(p) ==
    LET start == Pair_pos(p, p.start)
        end == Pair_pos(p, Pair_pair(p))
        rule == Pair_as_rule(p)
        inner == Pair_into_inner(p)
    IN  SerStruct(<<SerField("pos", SerTuple(<<start, end>>)),
                    SerField("rule", SerStr(rule)),
                    IF ~Pairs_peek(inner).some
                    THEN SerField("inner", SerStr(Pair_as_str(p)))
                    ELSE SerField("inner", Pairs_serialize(inner))>>)

(***************************************************************************)
(* The matching engine, which owns the queue while it parses: each rule    *)
(* match records a Start, consumes its first literal, matches its nested   *)
(* rules, consumes its last literal, then records its End and links the    *)
(* Start to it.  A shape is the Start/End bracket word of one parse.       *)
(***************************************************************************)
\* A recorded match: its rule, the literal the rule consumes before its
\* nested rules and the literal it consumes after them.
Kinds == {[rule |-> "a", lit |-> <<>>, post |-> <<>>],
          [rule |-> "b", lit |-> <<"e_acute">>, post |-> <<>>],
          [rule |-> "c", lit |-> <<"a">>, post |-> <<"a">>]}

\* Input left unmatched after the last rule.
Tails == {<<>>, <<"a">>}

CountTag(w, k, tag) == Cardinality({i \in 1..k : w[i] = tag})

Balance(w, k) == CountTag(w, k, "S") - CountTag(w, k, "E")

Shapes(n) ==
    {w \in [1..(2 * n) -> {"S", "E"}] :
        /\ Balance(w, 2 * n) = 0
        /\ \A k \in 1..(2 * n) : Balance(w, k) >= 0}

\* Position of the End that closes the Start at position i.
MatchOf(w, i) ==
    LET closes == {j \in (i + 1)..Len(w) : w[j] = "E" /\ Balance(w, j) = Balance(w, i - 1)}
    IN  CHOOSE j \in closes : \A k \in closes : j <= k

\* Position of the Start closed by the End at position j.
OpenOf(w, j) == CHOOSE i \in 1..(j - 1) : w[i] = "S" /\ MatchOf(w, i) = j

\* The kind of the match a token at position i belongs to.
KindAt(w, kinds, i) ==
    kinds[CountTag(w, IF w[i] = "S" THEN i ELSE OpenOf(w, i), "S")]

\* Literals consumed before the token at position i is recorded.
RECURSIVE Consumed(_, _, _)
Consumed(w, kinds, i) ==
    IF i <= 1 THEN <<>>
    ELSE Consumed(w, kinds, i - 1)
           \o (IF w[i - 1] = "S" THEN KindAt(w, kinds, i - 1).lit ELSE <<>>)
           \o (IF w[i] = "E" THEN KindAt(w, kinds, i).post ELSE <<>>)

BuildQueue(w, kinds) ==
    [i \in 1..Len(w) |->
        IF w[i] = "S"
        THEN StartToken(MatchOf(w, i) - 1, Len(Encode(Consumed(w, kinds, i))))
        ELSE EndToken(KindAt(w, kinds, i).rule,
                      Len(Encode(Consumed(w, kinds, i))))]

BuildText(w, kinds, tail) ==
    Encode((IF w = <<>> THEN <<>> ELSE Consumed(w, kinds, Len(w))) \o tail)

\* The input handle of each parse run: runs 1 and 2 parse one shared text,
\* run 3 parses another text instance.
RunInput(r) == IF r = 3 THEN 2 ELSE 1

StartIndices(q) == {i \in 0..(Len(q) - 1) : q[i + 1].tag = "Start"}

\* Pairs a caller can hold: any match of any run.
HeldPairs ==
    UNION {{pair_new(r, RunInput(r), i) : i \in StartIndices(queues[r])} : r \in DOMAIN queues}

NoRet == [op |-> "none"]
NoPairs == [some |-> FALSE]
NoPair == [some |-> FALSE]
NoOrigin == [op |-> "none"]

(***************************************************************************)
(* The Span specification: one text, one Span::new, then lines().          *)
(***************************************************************************)
SpanInit ==
    /\ \E cs \in CharSeqs(MaxChars) : inputs = <<Encode(cs)>>
    /\ queues = <<>>
    /\ span = NoSpan
    /\ lines = NoLines
    /\ yielded = <<>>
    /\ pairs = NoPairs
    /\ origin = NoOrigin
    /\ pair = NoPair
    /\ ret = NoRet

\* let span = Span::new(input, start, end)
SpanNew ==
    /\ ret = NoRet
    /\ \E start \in 0..(Len(inputs[1]) + 1), end \in 0..(Len(inputs[1]) + 1) :
         /\ span' = Span_new(1, start, end)
         /\ ret' = [op |-> "Span::new", start |-> start, end |-> end]
    /\ UNCHANGED <<inputs, queues, lines, yielded, pairs, origin, pair>>

\* span.as_str(), with span.start() and span.end()
SpanAsStr ==
    /\ span.some
    /\ ret.op = "Span::new"
    /\ ret' = [op |-> "Span::as_str", start |-> ret.start, end |-> ret.end,
               got_start |-> span.start, got_end |-> span.end,
               str |-> Span_as_str(span)]
    /\ UNCHANGED <<inputs, queues, span, lines, yielded, pairs, origin, pair>>

\* let mut lines = span.lines()
SpanLines ==
    /\ span.some
    /\ ~lines.some
    /\ ret.op = "Span::new"
    /\ lines' = Span_lines(span)
    /\ UNCHANGED <<inputs, queues, span, yielded, pairs, origin, pair, ret>>

\* lines.next()
LinesNext ==
    /\ lines.some
    /\ LET r == Lines_next(span, lines.pos)
       IN  /\ lines' = [lines EXCEPT !.pos = r.pos,
                                     !.calls = IF r.some THEN "some" ELSE "done"]
           /\ yielded' = IF r.some
                         THEN Append(yielded, [start |-> r.start, end |-> r.end])
                         ELSE yielded
    /\ UNCHANGED <<inputs, queues, span, pairs, origin, pair, ret>>

SpanNext == SpanNew \/ SpanAsStr \/ SpanLines \/ LinesNext

SpanSpec == SpanInit /\ [][SpanNext]_vars

\* The caller of C11 calls next() again and again: no call that would change
\* the iterator is put off for ever.
SpanFairSpec == SpanSpec /\ WF_vars(LinesNext)

(***************************************************************************)
(* The Pair specification: three parse runs of one grammar over one text   *)
(* content, and a caller who walks the root Pairs of run 1 with next(),    *)
(* into_inner() and Pairs::single(), inspecting the pairs it is handed.    *)
(* pairs is the caller's iterator, origin the call that made it, yielded   *)
(* what it has returned so far, pair the caller's current Pair, and ret    *)
(* the outcome of the last call.                                           *)
(***************************************************************************)
Init ==
    /\ \E n \in 0..MaxMatches : \E w \in Shapes(n) : \E kinds \in [1..n -> Kinds] :
         \E tail \in Tails :
            /\ queues = [r \in 1..3 |-> BuildQueue(w, kinds)]
            /\ inputs = [h \in 1..2 |-> BuildText(w, kinds, tail)]
            /\ pairs = pairs_new(1, RunInput(1), 0, 2 * n)
    /\ origin = [op |-> "parse"]
    /\ span = NoSpan
    /\ lines = NoLines
    /\ yielded = <<>>
    /\ pair = NoPair
    /\ ret = NoRet

Running == ret.op # "panic"

\* The caller holds the pair next() has just returned.  The inspections
\* below borrow the pair and leave every variable but ret (and span) alone,
\* so one inspection of each returned pair stands for any number of them.
Holding == Running /\ pair.some /\ ret.op = "Pairs::next"

\* The call does not return.
Panic(call) ==
    /\ ret' = [op |-> "panic", call |-> call]
    /\ UNCHANGED <<inputs, queues, span, lines, yielded, pairs, origin, pair>>

\* let pair = pairs.next()
PairsNext ==
    /\ Running
    /\ pairs.some
    /\ LET r == Pairs_next(pairs)
       IN  IF r.item.some /\ Pair_pair(r.item) < 0
           THEN Panic("Pairs::next")
           ELSE /\ pair' = r.item
                /\ pairs' = r.iter
                /\ yielded' = IF r.item.some THEN Append(yielded, r.item) ELSE yielded
                /\ ret' = [op |-> "Pairs::next", some |-> r.item.some]
                /\ span' = NoSpan
                /\ UNCHANGED <<inputs, queues, lines, origin>>

\* let pairs = pair.into_inner()
IntoInner ==
    /\ Running
    /\ pair.some
    /\ IF Pair_pair(pair) < 0
       THEN Panic("Pair::into_inner")
       ELSE /\ pairs' = Pair_into_inner(pair)
            /\ origin' = [op |-> "Pair::into_inner", pair |-> pair]
            /\ yielded' = <<>>
            /\ pair' = NoPair
            /\ ret' = NoRet
            /\ span' = NoSpan
            /\ UNCHANGED <<inputs, queues, lines>>

\* let pairs = Pairs::single(pair)
Single ==
    /\ Running
    /\ pair.some
    /\ IF Pair_pair(pair) < 0
       THEN Panic("Pairs::single")
       ELSE /\ pairs' = Pairs_single(pair)
            /\ origin' = [op |-> "Pairs::single", pair |-> pair]
            /\ yielded' = <<>>
            /\ pair' = NoPair
            /\ ret' = NoRet
            /\ span' = NoSpan
            /\ UNCHANGED <<inputs, queues, lines>>

\* pair.as_rule()
AsRule ==
    /\ Holding
    /\ LET rule == Pair_as_rule(pair)
       IN  IF rule \in {"!unreachable", "!out_of_bounds"}
           THEN Panic("Pair::as_rule")
           ELSE /\ ret' = [op |-> "Pair::as_rule", rule |-> rule]
                /\ UNCHANGED <<inputs, queues, span, lines, yielded, pairs, origin, pair>>

\* pair.as_str()
AsStr ==
    /\ Holding
    /\ LET str == Pair_as_str(pair)
       IN  IF str = <<OutOfBounds>>
           THEN Panic("Pair::as_str")
           ELSE /\ ret' = [op |-> "Pair::as_str", str |-> str]
                /\ UNCHANGED <<inputs, queues, span, lines, yielded, pairs, origin, pair>>

\* let span = pair.as_span().  With debug assertions on, new_unchecked
\* panics on offsets that are no valid slice; without, it builds the Span.
AsSpan ==
    /\ Holding
    /\ \E debug_assertions \in BOOLEAN :
         LET s == Pair_as_span(pair)
         IN  IF \/ s.start < 0
                \/ s.end < 0
                \/ debug_assertions /\ ~get_is_some(inputs[s.input], s.start, s.end)
             THEN Panic("Pair::as_span")
             ELSE /\ span' = s
                  /\ ret' = [op |-> "Pair::as_span", pair |-> pair]
                  /\ UNCHANGED <<inputs, queues, lines, yielded, pairs, origin, pair>>

\* format!("{}", pair)
Fmt ==
    /\ Holding
    /\ IF ~Sound(pair)
       THEN Panic("Pair::fmt")
       ELSE /\ ret' = [op |-> "Pair::fmt", out |-> Pair_fmt(pair)]
            /\ UNCHANGED <<inputs, queues, span, lines, yielded, pairs, origin, pair>>

\* pair.serialize(serializer)
Serialize ==
    /\ Holding
    /\ IF ~Sound(pair)
       THEN Panic("Pair::serialize")
       ELSE /\ ret' = [op |-> "Pair::serialize", out |-> Pair_serialize(pair)]
            /\ UNCHANGED <<inputs, queues, span, lines, yielded, pairs, origin, pair>>

\* pair == other, and the two pairs hashed
Eq ==
    /\ Holding
    /\ \E other \in HeldPairs :
         ret' = [op |-> "Pair::eq", other |-> other, eq |-> Pair_eq(pair, other),
                 hash |-> Pair_hash(pair), other_hash |-> Pair_hash(other)]
    /\ UNCHANGED <<inputs, queues, span, lines, yielded, pairs, origin, pair>>

\* pair.tokens().collect()
PairTokens ==
    /\ Holding
    /\ IF Pair_pair(pair) < 0
       THEN Panic("Pair::tokens")
       ELSE /\ ret' = [op |-> "Pair::tokens", pair |-> pair,
                       tokens |-> Tokens_collect(Pair_tokens(pair))]
            /\ pair' = NoPair
            /\ span' = NoSpan
            /\ UNCHANGED <<inputs, queues, lines, yielded, pairs, origin>>

\* pairs.tokens().collect()
PairsTokens ==
    /\ Running
    /\ pairs.some
    /\ ret' = [op |-> "Pairs::tokens", origin |-> origin, yielded |-> yielded,
               tokens |-> Tokens_collect(Pairs_tokens(pairs))]
    /\ pairs' = NoPairs
    /\ origin' = NoOrigin
    /\ yielded' = <<>>
    /\ span' = NoSpan
    /\ UNCHANGED <<inputs, queues, lines, pair>>

Next ==
    \/ PairsNext
    \/ IntoInner
    \/ Single
    \/ AsRule
    \/ AsStr
    \/ AsSpan
    \/ Fmt
    \/ Serialize
    \/ Eq
    \/ PairTokens
    \/ PairsTokens

Spec == Init /\ [][Next]_vars

(***************************************************************************)
(* Reference notions for the Span claims, computed from the text alone.    *)
(***************************************************************************)
\* Width of the codepoint announced by a lead byte.
LeadWidth(b) == IF b < 128 THEN 1 ELSE IF b < 224 THEN 2 ELSE IF b < 240 THEN 3 ELSE 4

\* Offsets at which a codepoint of t starts, walking from offset i.
RECURSIVE CodepointStarts(_, _)
CodepointStarts(t, i) ==
    IF i >= Len(t) THEN {}
    ELSE {i} \cup CodepointStarts(t, i + LeadWidth(t[i + 1]))

\* Offset i falls strictly inside a multi-byte codepoint of t.
InsideCodepoint(t, i) ==
    /\ i > 0
    /\ i < Len(t)
    /\ i \notin CodepointStarts(t, 0)

\* The lines of t as half-open offset ranges; a line includes its newline.
LineStarts(t) ==
    IF t = <<>> THEN {}
    ELSE {0} \cup {i + 1 : i \in {j \in 0..(Len(t) - 2) : t[j + 1] = 10}}

LineEndOf(t, ls) ==
    LET later == {x \in LineStarts(t) : x > ls}
    IN  IF later = {} THEN Len(t)
        ELSE CHOOSE x \in later : \A y \in later : x <= y

TextLines(t) == {[start |-> ls, end |-> LineEndOf(t, ls)] : ls \in LineStarts(t)}

\* The lines holding at least one offset of [s, e).
CoveredLines(t, s, e) ==
    {l \in TextLines(t) : \E o \in s..(e - 1) : l.start <= o /\ o < l.end}

YieldedSet == {yielded[i] : i \in 1..Len(yielded)}

\* C1: once lines() of an accepted span [s, e) with s < e is exhausted, it
\* has yielded, in text order and each once, exactly the lines of the text
\* that hold an offset of [s, e): the first holds s, the last holds e - 1,
\* consecutive slices are contiguous, and no line lying wholly at or after
\* e is yielded.
C1_LinesExactlyCovered ==
    (lines.some /\ lines.calls = "done" /\ span.start < span.end) =>
        LET t == inputs[span.input]
            n == Len(yielded)
        IN  /\ n >= 1
            /\ yielded[1].start <= span.start /\ span.start < yielded[1].end
            /\ yielded[n].start <= span.end - 1 /\ span.end - 1 < yielded[n].end
            /\ \A i \in 1..(n - 1) : yielded[i].end = yielded[i + 1].start
            /\ \A i \in 1..n : yielded[i].start < span.end
            /\ YieldedSet = CoveredLines(t, span.start, span.end)
            /\ n = Cardinality(CoveredLines(t, span.start, span.end))

\* C2: Span::new returns no value when start > end, or start or end exceeds
\* the text length, or start or end falls inside a multi-byte codepoint; in
\* every other case it returns a Span whose start() and end() are the given
\* offsets and whose as_str() is the bytes [start, end) of the text.
C2_SpanNewChecked ==
    LET t == inputs[1]
        bad(s, e) == \/ s > e
                     \/ s > Len(t) \/ e > Len(t)
                     \/ InsideCodepoint(t, s) \/ InsideCodepoint(t, e)
    IN  /\ ret.op = "Span::new" =>
              IF bad(ret.start, ret.end)
              THEN ~span.some
              ELSE span.some /\ span.start = ret.start /\ span.end = ret.end
        /\ ret.op = "Span::as_str" =>
              /\ ~bad(ret.start, ret.end)
              /\ ret.got_start = ret.start
              /\ ret.got_end = ret.end
              /\ ret.str = [k \in 1..(ret.end - ret.start) |-> t[ret.start + k]]

\* A span that starts and ends between codepoints of a text with a
\* two-byte character, read back through as_str.
C2_Witness ==
    /\ ret.op = "Span::as_str"
    /\ ret.start > 0
    /\ ret.end < Len(inputs[1])
    /\ \E k \in 1..Len(ret.str) : ret.str[k] = 195

\* Span::new refused offsets that split a two-byte character.
C2_WitnessRefused ==
    /\ ret.op = "Span::new"
    /\ ~span.some
    /\ ret.start <= ret.end
    /\ ret.end <= Len(inputs[1])

(***************************************************************************)
(* Reference notions for the Pair claims, computed from the bracket        *)
(* structure of the queue alone (its tags), not from end_token_index.      *)
(***************************************************************************)
\* Nesting depth of the token at index i: unclosed Starts before it.
DepthAt(q, i) ==
    Cardinality({k \in 0..(i - 1) : q[k + 1].tag = "Start"})
      - Cardinality({k \in 0..(i - 1) : q[k + 1].tag = "End"})

\* Index of the End that closes the Start at index s.
MatchingEnd(q, s) ==
    LET closes == {j \in (s + 1)..(Len(q) - 1) :
                      q[j + 1].tag = "End" /\ DepthAt(q, j) = DepthAt(q, s) + 1}
    IN  CHOOSE j \in closes : \A k \in closes : j <= k

\* Start indices of the matches nested, at any depth, inside the match at s.
Nested(q, s) ==
    {j \in (s + 1)..(MatchingEnd(q, s) - 1) : q[j + 1].tag = "Start"}

\* Start indices of the direct children of the match at s.
ChildSet(q, s) == {j \in Nested(q, s) : DepthAt(q, j) = DepthAt(q, s) + 1}

\* A finite set of numbers in increasing order.
RECURSIVE Ascending(_)
Ascending(S) ==
    IF S = {} THEN <<>>
    ELSE LET m == CHOOSE x \in S : \A y \in S : x <= y
         IN  <<m>> \o Ascending(S \ {m})

Children(q, s) == Ascending(ChildSet(q, s))

\* The iterator has reported exhaustion.
Exhausted == ret.op = "Pairs::next" /\ ~ret.some

\* C3: two Pairs are equal if and only if they hold the same queue instance,
\* the same input instance and the same start index; so two Pairs at one
\* index of one parse run are equal and feed the hasher the same values,
\* and two Pairs of two parse runs are not equal, identical content or not.
C3_EqIsIdentity ==
    ret.op = "Pair::eq" =>
        LET a == pair
            b == ret.other
        IN  /\ ret.eq <=> (a.queue = b.queue /\ a.input = b.input /\ a.start = b.start)
            /\ (a.queue = b.queue /\ a.start = b.start) =>
                  (ret.eq /\ ret.hash = ret.other_hash)
            /\ a.queue # b.queue => ~ret.eq

\* Pairs of two runs compared, alike in input content, queue content and
\* index, one time over one shared text and one time over two texts.
C3_Witness ==
    /\ ret.op = "Pair::eq"
    /\ pair.queue # ret.other.queue
    /\ pair.input = ret.other.input
    /\ pair.start = ret.other.start
    /\ queues[pair.queue] = queues[ret.other.queue]
    /\ Len(queues[pair.queue]) >= 4

\* C4: the iterator p.into_inner() yields the direct children of p, each
\* once and in queue order, never a deeper descendant and never p, and
\* reports exhaustion only after the last child; for a p with no nested
\* match the first call reports exhaustion.
C4_InnerYieldsChildren ==
    origin.op = "Pair::into_inner" =>
        LET p == origin.pair
            kids == Children(queues[p.queue], p.start)
        IN  /\ Len(yielded) <= Len(kids)
            /\ \A i \in 1..Len(yielded) :
                  yielded[i] = pair_new(p.queue, p.input, kids[i])
            /\ Exhausted => Len(yielded) = Len(kids)

\* into_inner of a pair with a grandchild, iterated to exhaustion.
C4_Witness ==
    /\ origin.op = "Pair::into_inner"
    /\ Exhausted
    /\ Len(yielded) >= 1
    /\ Cardinality(Nested(queues[1], origin.pair.start)) > Len(yielded)

\* into_inner of a pair with two children, iterated to exhaustion.
C4_WitnessSiblings ==
    /\ origin.op = "Pair::into_inner"
    /\ Exhausted
    /\ Len(yielded) = 2

\* C5: p.into_inner().tokens() has twice as many entries as there are rule
\* matches nested, directly or not, inside p: one Start and one End each;
\* 2 for a p with one leaf child, 0 for a leaf.
C5_InnerTokenCount ==
    (/\ ret.op = "Pairs::tokens"
     /\ ret.origin.op = "Pair::into_inner"
     /\ ret.yielded = <<>>) =>
        LET p == ret.origin.pair
            q == queues[p.queue]
            n == Cardinality(Nested(q, p.start))
            toks == ret.tokens
        IN  /\ Len(toks) = 2 * n
            /\ Cardinality({k \in 1..Len(toks) : toks[k].tag = "Start"}) = n
            /\ Cardinality({k \in 1..Len(toks) : toks[k].tag = "End"}) = n
            /\ (Children(q, p.start) = <<>>) => Len(toks) = 0
            /\ (n = 1) => Len(toks) = 2

\* The tokens of into_inner of a pair whose one child is a leaf.
C5_Witness ==
    /\ ret.op = "Pairs::tokens"
    /\ ret.origin.op = "Pair::into_inner"
    /\ ret.yielded = <<>>
    /\ Cardinality(Nested(queues[1], ret.origin.pair.start)) = 1
    /\ Len(ret.tokens) = 2

\* C6: p.as_span() is a Span over p's input instance from the offset of p's
\* Start entry to the offset of its matching End entry, its as_str() is
\* p.as_str(), and p is as it was before the call.
C6_AsSpanAgrees ==
    ret.op = "Pair::as_span" =>
        LET q == queues[pair.queue]
        IN  /\ span.some
            /\ span.input = pair.input
            /\ span.start = q[pair.start + 1].input_pos
            /\ span.end = q[MatchingEnd(q, pair.start) + 1].input_pos
            /\ Span_as_str(span) = Pair_as_str(pair)
            /\ pair = ret.pair

\* as_span of a nested pair that matched a two-byte character.
C6_Witness ==
    /\ ret.op = "Pair::as_span"
    /\ pair.start > 0
    /\ span.start > 0
    /\ span.end - span.start >= 2

\* C7: Pairs::single(p) yields one Pair, equal to p, and then reports
\* exhaustion.
C7_SingleYieldsPair ==
    origin.op = "Pairs::single" =>
        /\ Len(yielded) <= 1
        /\ \A i \in 1..Len(yielded) :
              /\ yielded[i].queue = origin.pair.queue
              /\ yielded[i].input = origin.pair.input
              /\ yielded[i].start = origin.pair.start
              /\ Pair_eq(yielded[i], origin.pair)
        /\ Exhausted => Len(yielded) = 1

\* Pairs::single of a pair with children, iterated to exhaustion.
C7_Witness ==
    /\ origin.op = "Pairs::single"
    /\ Exhausted
    /\ Len(yielded) = 1
    /\ Children(queues[1], origin.pair.start) # <<>>

\* The rendering C8 describes, from the bracket structure.
RECURSIVE Rendering(_, _)
Rendering(q, s) ==
    LET e == MatchingEnd(q, s)
        kids == Children(q, s)
        head == q[e + 1].rule \o "(" \o ToString(q[s + 1].input_pos) \o ", "
                  \o ToString(q[e + 1].input_pos)
    IN  IF kids = <<>> THEN head \o ")"
        ELSE head \o ", ["
               \o Join([i \in 1..Len(kids) |-> Rendering(q, kids[i])], ", ") \o "])"

\* C8: Display renders the rule followed by "(start, end)" when p has no
\* children and by "(start, end, [c1, c2, ...])" when it has, the ci being
\* the renderings of p's direct children in queue order, joined with ", ".
C8_DisplayForm ==
    ret.op = "Pair::fmt" => ret.out = Rendering(queues[pair.queue], pair.start)

\* A pair with two children rendered.
C8_Witness ==
    /\ ret.op = "Pair::fmt"
    /\ Len(Children(queues[1], pair.start)) = 2

\* A pair with a grandchild rendered.
C8_WitnessNested ==
    /\ ret.op = "Pair::fmt"
    /\ Cardinality(Nested(queues[1], pair.start)) = 2
    /\ Len(Children(queues[1], pair.start)) = 1

\* C9: the serialization of p is a struct of the three fields pos, rule,
\* inner, in that order: pos the offsets of p, rule its rule's name, inner
\* the substring p.as_str() if and only if p has no children, and otherwise
\* the serialization of the sibling sequence of p's children.
C9_SerializeForm ==
    ret.op = "Pair::serialize" =>
        LET q == queues[pair.queue]
            s == pair.start
            e == MatchingEnd(q, s)
            f == ret.out.fields
        IN  /\ ret.out.type = "struct"
            /\ [i \in 1..Len(f) |-> f[i].name] = <<"pos", "rule", "inner">>
            /\ f[1].value = SerTuple(<<q[s + 1].input_pos, q[e + 1].input_pos>>)
            /\ f[2].value = SerStr(q[e + 1].rule)
            /\ (f[3].value.type = "str") <=> (Children(q, s) = <<>>)
            /\ (Children(q, s) = <<>>) =>
                  f[3].value = SerStr(Slice(inputs[pair.input],
                                            q[s + 1].input_pos, q[e + 1].input_pos))
            /\ (Children(q, s) # <<>>) =>
                  f[3].value = Pairs_serialize(pairs_new(pair.queue, pair.input, s + 1, e))

\* A pair with children serialized.
C9_Witness ==
    /\ ret.op = "Pair::serialize"
    /\ Children(queues[1], pair.start) # <<>>
    /\ ret.out.fields[3].value.type = "struct"

\* A pair without children serialized.
C9_WitnessLeaf ==
    /\ ret.op = "Pair::serialize"
    /\ ret.out.fields[3].value.type = "str"
    /\ Len(ret.out.fields[3].value.text) >= 1

\* A Pair whose start designates a Start entry, whose end_token_index
\* designates an End entry, and whose offsets slice the text.
WellFormed(p) ==
    LET q == queues[p.queue]
        st == Entry(q, p.start)
    IN  /\ p.start >= 0 /\ p.start < Len(q)
        /\ st.tag = "Start"
        /\ st.end_token_index >= 0 /\ st.end_token_index < Len(q)
        /\ Entry(q, st.end_token_index).tag = "End"
        /\ st.input_pos <= Entry(q, st.end_token_index).input_pos
        /\ get_is_some(inputs[p.input], st.input_pos,
                       Entry(q, st.end_token_index).input_pos)

\* C10: every Pair reached from the root Pairs by next(), into_inner() and
\* Pairs::single() has a start index in bounds that designates a Start whose
\* end_token_index is in bounds and designates an End, so no call on it
\* reaches unreachable!(), indexes the queue out of range, or slices the
\* text with a start offset past the end offset.
C10_NoFatalBranch ==
    /\ ret.op # "panic"
    /\ pair.some => WellFormed(pair)
    /\ \A i \in 1..Len(yielded) : WellFormed(yielded[i])
    /\ origin.op \in {"Pair::into_inner", "Pairs::single"} => WellFormed(origin.pair)
    /\ ret.op = "Pair::tokens" => WellFormed(ret.pair)
    /\ span.some => get_is_some(inputs[span.input], span.start, span.end)

\* as_rule answered on a grandchild reached through two into_inner calls.
C10_Witness ==
    /\ ret.op = "Pair::as_rule"
    /\ origin.op = "Pair::into_inner"
    /\ origin.pair.start >= 1
    /\ pair.start >= 2

\* A pair reached through Pairs::single and handed on to tokens().
C10_WitnessSingle ==
    /\ ret.op = "Pair::tokens"
    /\ origin.op = "Pairs::single"
    /\ Len(ret.tokens) >= 4

\* The last call of next() returned None.
LinesDone == lines.some /\ lines.calls = "done"

\* C11: repeated calls of Lines::next come to report exhaustion, and then
\* every later call reports it too; a call that yields a line moves the
\* cursor strictly forward, to that line's end; the cursor never passes the
\* end of the text; and no more lines are yielded than the text has.
C11_LinesTerminate ==
    /\ [](lines.some =>
            /\ lines.pos <= Len(inputs[span.input])
            /\ Len(yielded) <= Cardinality(LineStarts(inputs[span.input])))
    /\ [][(lines.some /\ Len(yielded') > Len(yielded)) =>
            /\ lines'.pos > lines.pos
            /\ lines'.pos = yielded'[Len(yielded')].end
            /\ lines'.calls = "some"]_vars
    /\ [][LinesDone => (LinesDone' /\ yielded' = yielded /\ lines'.pos = lines.pos)]_vars
    /\ (lines.some ~> LinesDone)

\* lines() of a span over three lines, exhausted after yielding two.
C11_Witness ==
    /\ LinesDone
    /\ Len(yielded) = 2
    /\ Cardinality(LineStarts(inputs[span.input])) = 3

\* C12: the tokens of Pairs::single(p) are the tokens of p: the queue
\* entries from p's Start to its matching End, both included, so the two
\* sequences have one length.
C12_SingleTokensArePairTokens ==
    (/\ ret.op = "Pairs::tokens"
     /\ ret.origin.op = "Pairs::single"
     /\ ret.yielded = <<>>) =>
        LET p == ret.origin.pair
            q == queues[p.queue]
            e == MatchingEnd(q, p.start)
            own == Tokens_collect(Pair_tokens(p))
        IN  /\ own = [k \in 1..(e - p.start + 1) |-> q[p.start + k]]
            /\ ret.tokens = own
            /\ Len(ret.tokens) = Len(own)
            /\ ret.tokens # <<>>
            /\ ret.tokens[1] = q[p.start + 1]
            /\ ret.tokens[Len(ret.tokens)] = q[e + 1]

\* p.tokens() is the queue from p's Start to its matching End, inclusive.
C12_PairTokensWhole ==
    ret.op = "Pair::tokens" =>
        LET p == ret.pair
            q == queues[p.queue]
            e == MatchingEnd(q, p.start)
        IN  ret.tokens = [k \in 1..(e - p.start + 1) |-> q[p.start + k]]

\* The tokens of Pairs::single(p) are those of p without its End marker.
C12_SingleTokensLackEnd ==
    (/\ ret.op = "Pairs::tokens"
     /\ ret.origin.op = "Pairs::single"
     /\ ret.yielded = <<>>) =>
        LET p == ret.origin.pair
            own == Tokens_collect(Pair_tokens(p))
        IN  ret.tokens = SubSeq(own, 1, Len(own) - 1)

====
